---- MODULE Spec2Model ----
(***************************************************************************)
(* Model of s3_file_load_save.py: the manifest-driven orchestrator         *)
(* UtilitiesS3 (load_folder, load_file, flow_load, save_file,              *)
(* _cast_schema) over the fetch/store adapter FetchS3Data (load_data,      *)
(* save_data) and a bucket.                                                *)
(*                                                                         *)
(* A path is a record [dir, stem, ext]; a stored object is the record      *)
(* [fmt, args, obj] an encoder produced; a tabular object is a record      *)
(* [kind |-> "frame", cols, data] with data[c] = [dtype, raw].             *)
(*                                                                         *)
(* Spec: one caller, calls run one after another.  SpecConc: two callers   *)
(* whose load_file and load_folder calls interleave.  SpecCast:            *)
(* _cast_schema alone, over every small frame and schema.                  *)
(***************************************************************************)
EXTENDS Integers, Sequences, FiniteSets, TLC

\* ------------------------------------------------------------------ bounds
MaxCalls == 2
MaxBatch == 2
MaxSchema == 2

\* --------------------------------------------------------------- constants
None == "None"
EmptyMap == [k \in {} |-> 0]
Sentinel == "np.nan"
Ghost == "ghost"
Threads == {1, 2}
TabularFormats == {"excel", "csv", "parquet"}
BlobFormats == {"pickle", "json"}
ImageExts == {".png", ".jpg"}

Range(s) == {s[i] : i \in DOMAIN s}

\* FILEEXTENS.get(ext): the extension table, image extensions included.
FILEEXTENS(ext) ==
    CASE ext \in {".xls", ".xlsx", ".xlsm", ".xlsb"} -> "excel"
      [] ext = ".csv" -> "csv"
      [] ext = ".parquet" -> "parquet"
      [] ext = ".json" -> "json"
      [] ext = ".pickle" -> "pickle"
      [] ext \in ImageExts -> "image"
      [] OTHER -> None

P(d, s, e) == [dir |-> d, stem |-> s, ext |-> e]

\* os.path.splitext(path)[1]
SplitExt(path) == path.ext

\* ---------------------------------------------------------------- objects
Cell(t, r) == [dtype |-> t, raw |-> r]
F1 == [kind |-> "frame", cols |-> <<"id", "name", "extra">>,
       data |-> [id |-> Cell("str", "num"), name |-> Cell("str", "txt"),
                 extra |-> Cell("int64", "num")]]
J1 == [kind |-> "value"]
IMG == [kind |-> "image"]
NoObj == [kind |-> "none"]
\* What a tabular reader makes of bytes written under other arguments: a frame,
\* but not the one that was written.
Garbled == [kind |-> "frame", cols |-> <<"junk">>, data |-> [junk |-> Cell("str", "txt")]]
Empty == [fmt |-> "empty", args |-> EmptyMap, obj |-> NoObj]

\* df[col].astype(dtype) succeeds when every value converts.
Convertible(cell, dtype) == dtype = "str" \/ cell.raw = "num"

\* df[col] = df[col].astype(dtype): the column is replaced in the same frame.
Astype(df, col, dtype) ==
    [df EXCEPT !.data = [@ EXCEPT ![col] = Cell(dtype, @.raw)]]

\* The for loop of _cast_schema over schema[i..]: the frame as coerced so far and
\* the error that stopped the loop, if any.
RECURSIVE CastLoop(_, _, _)
CastLoop(df, schema, i) ==
    IF i > Len(schema) THEN [df |-> df, err |-> "none"]
    ELSE LET col == schema[i].col
             dtype == schema[i].dtype
         IN IF dtype /= Sentinel
            THEN IF col \notin DOMAIN df.data THEN [df |-> df, err |-> "KeyError"]
                 ELSE IF ~Convertible(df.data[col], dtype)
                      THEN [df |-> df, err |-> "TypeCoercionError"]
                      ELSE CastLoop(Astype(df, col, dtype), schema, i + 1)
            ELSE CastLoop(df, schema, i + 1)

SchemaCols(schema) == [i \in 1..Len(schema) |-> schema[i].col]

ProjectAll(df, cols) == df

\* df[cols]: a new frame with exactly the listed columns, in that order.
Project(df, cols) ==
    [kind |-> "frame", cols |-> cols,
     data |-> [c \in Range(cols) |-> df.data[c]]]

\* _cast_schema(df, schema): out is the returned object, inp the object passed
\* in as the call leaves it, err the exception raised ("none" when it returns).
CastSchema(df, schema) ==
    IF Len(schema) > 0
    THEN IF df.kind /= "frame"
         THEN [out |-> NoObj, inp |-> df, err |-> "TypeError"]
         ELSE LET r == CastLoop(df, schema, 1)
                  cols == SchemaCols(schema)
              IN IF r.err /= "none" THEN [out |-> NoObj, inp |-> r.df, err |-> r.err]
                 ELSE IF ~(Range(cols) \subseteq DOMAIN r.df.data)
                      THEN [out |-> NoObj, inp |-> r.df, err |-> "KeyError"]
                      ELSE [out |-> Project(r.df, cols), inp |-> r.df, err |-> "none"]
    ELSE [out |-> df, inp |-> df, err |-> "none"]

\* info['pandas_args'].update(new)
MergeOldWins(old, new) ==
    [k \in DOMAIN old \cup DOMAIN new |-> IF k \in DOMAIN old THEN old[k] ELSE new[k]]

Update(old, new) ==
    [k \in DOMAIN old \cup DOMAIN new |-> IF k \in DOMAIN new THEN new[k] ELSE old[k]]

\* ----------------------------------------------------------------- errors
NoErr == [kind |-> "none"]
Err(k) == [kind |-> k]
NameErrAs(f) == [kind |-> "InvalidFormat", name |-> f]
\* flow_load's ValueError "The object '{f}' must be in list Indicated by the user"
NameErr(f) == [kind |-> "NameNotFound", name |-> f]
\* The ValueError "The object format for '{path}' must be instead of '_[{format}]_'"
FormatErr(info) == [kind |-> "InvalidFormat", path |-> info.path, tag |-> info.format]

\* ------------------------------------------------------------ the adapter
EncodeNoArgs(fmt, kwargs, obj) == [fmt |-> fmt, args |-> EmptyMap, obj |-> obj]

\* The bytes a format's writer produces for obj under kwargs.
Encode(fmt, kwargs, obj) ==
    IF fmt \in TabularFormats THEN [fmt |-> fmt, args |-> kwargs, obj |-> obj]
    ELSE [fmt |-> fmt, args |-> EmptyMap, obj |-> obj]

\* What a format's reader makes of the bytes under kwargs.
Decode(fmt, kwargs, bytes) ==
    IF fmt \in TabularFormats
    THEN IF bytes.fmt = fmt /\ bytes.args = kwargs
         THEN [err |-> NoErr, obj |-> bytes.obj]
         ELSE [err |-> NoErr, obj |-> Garbled]
    ELSE IF bytes.fmt = fmt THEN [err |-> NoErr, obj |-> bytes.obj]
         ELSE [err |-> Err("DecodeError"), obj |-> NoObj]

\* FetchS3Data.load_data(info) against the bucket: get_object, then the reader.
\* req is the get-object requests it made.
LoadData(info, store) ==
    IF info.path \notin DOMAIN store
    THEN [err |-> Err("NoSuchKey"), obj |-> NoObj, req |-> <<info.path>>]
    ELSE IF info.format \in TabularFormats
         THEN LET d == Decode(info.format, info.pandas_args, store[info.path])
              IN [err |-> d.err, obj |-> d.obj, req |-> <<info.path>>]
         ELSE IF info.format \in BlobFormats \cup {"image"}
              THEN LET d == Decode(info.format, EmptyMap, store[info.path])
                   IN [err |-> d.err, obj |-> d.obj, req |-> <<info.path>>]
              ELSE [err |-> FormatErr(info), obj |-> NoObj, req |-> <<info.path>>]

\* FetchS3Data.save_data(obj, info): the bucket afterwards and the writes made.
\* closed says what closing the opened file leaves when json.dumps raises inside
\* the with block: nothing (FALSE) or an empty object (TRUE).
SaveData(obj, info, store, closed) ==
    IF info.format \in TabularFormats
    THEN IF obj.kind /= "frame"
         THEN [err |-> Err("TypeError"), store |-> store, wrote |-> <<>>]
         ELSE [err |-> NoErr,
               store |-> (info.path :> Encode(info.format, info.pandas_args, obj)) @@ store,
               wrote |-> <<info.path>>]
    ELSE IF info.format \in BlobFormats
         THEN IF info.format = "json" /\ obj.kind /= "value"
              THEN [err |-> Err("TypeError"),
                    store |-> IF closed THEN (info.path :> Empty) @@ store ELSE store,
                    wrote |-> IF closed THEN <<info.path>> ELSE <<>>]
              ELSE [err |-> NoErr,
                    store |-> (info.path :> Encode(info.format, info.pandas_args, obj)) @@ store,
                    wrote |-> <<info.path>>]
         ELSE [err |-> FormatErr(info), store |-> store, wrote |-> <<>>]

\* ------------------------------------------------------------- the bucket
\* Every key the bucket can hold, in the order the listing service returns keys.
KeyOrder ==
    << P("c/", "cfg", ".json"), P("d/", "book", ".xlsx"),
       P("d/", "deep", ".parquet"), P("d/s/", "deep", ".parquet"),
       P("d/", "sales", ".csv"), P("f/", "a", ".csv"), P("f/", "b", ".pickle"),
       P("g/", "notes", ".txt"), P("g/", "pic", ".png") >>

Bases == {"d/", "e/", "f/", "g/"}

\* The key lies under the prefix.
Under(key, base) == key.dir = base \/ (base = "d/" /\ key.dir = "d/s/")

\* wr.s3.list_objects(fpath)
Listing(store, base) ==
    SelectSeq(KeyOrder, LAMBDA k : k \in DOMAIN store /\ Under(k, base))

\* The bucket at the start: sales.csv was written with hdr "0", the others with
\* no arguments; tabular keys hold the frame F1, the image key an image, the
\* other keys a plain value.
Bytes(path, obj) ==
    [fmt |-> FILEEXTENS(SplitExt(path)),
     args |-> IF path.stem = "sales" THEN [hdr |-> "0"] ELSE EmptyMap,
     obj |-> obj]

Bucket0 ==
    LET ks == { P("d/s/", "deep", ".parquet"), P("d/", "sales", ".csv"),
                P("f/", "a", ".csv"), P("f/", "b", ".pickle"),
                P("c/", "cfg", ".json"), P("g/", "notes", ".txt"),
                P("g/", "pic", ".png") }
    IN [k \in ks |-> Bytes(k, CASE FILEEXTENS(k.ext) \in TabularFormats -> F1
                                [] FILEEXTENS(k.ext) = "image" -> IMG
                                [] OTHER -> J1)]

\* ---------------------------------------------------------- the manifests
Schema1 == << [col |-> "id", dtype |-> "int64"], [col |-> "name", dtype |-> Sentinel] >>
Schema2 == << [col |-> "name", dtype |-> "int64"] >>

RawManifests ==
    { EmptyMap,
      [sales |-> [path |-> P("d/", "sales", ".csv"), pandas_args |-> [hdr |-> "0"],
                  schema |-> Schema1],
       cfg |-> [path |-> P("c/", "cfg", ".json"), pandas_args |-> EmptyMap,
                schema |-> <<>>]],
      [pic |-> [path |-> P("g/", "pic", ".png"), pandas_args |-> EmptyMap,
                schema |-> Schema2],
       notes |-> [path |-> P("g/", "notes", ".txt")]],
      [bare |-> [path |-> P("f/", "a", ".csv")],
       blob |-> [path |-> P("f/", "b", ".pickle"), pandas_args |-> EmptyMap]],
      [book |-> [path |-> P("d/", "book", ".xlsx"), pandas_args |-> [sep |-> ","],
                 schema |-> <<>>],
       pq |-> [path |-> P("d/s/", "deep", ".parquet"), pandas_args |-> EmptyMap,
               schema |-> Schema1]] }

\* UtilitiesS3.__init__: an empty pandas_args or schema becomes {}, format is
\* looked up from the path's extension; keys the caller left out stay out.
Construct(raw) ==
    [k \in DOMAIN raw |->
        [f \in DOMAIN raw[k] \cup {"format"} |->
            IF f = "format" THEN FILEEXTENS(SplitExt(raw[k].path))
            ELSE IF f \in {"pandas_args", "schema"} /\ DOMAIN raw[k][f] = {} THEN EmptyMap
                 ELSE raw[k][f]]]

\* ------------------------------------------------------------- load_folder
FolderNameNoIndex(tag, i) == tag

\* f'{_ext}_{i}'
FolderName(tag, i) == tag \o "_" \o ToString(i)

\* self.file_name after the loop of load_folder over the listing
FolderNames(listing) ==
    [i \in 1..Len(listing) |-> FolderName(FILEEXTENS(SplitExt(listing[i])), i - 1)]

\* self.datasets after the loop of load_folder over the listing
FolderDatasets(base, listing) ==
    LET names == FolderNames(listing)
        last(n) == CHOOSE i \in 1..Len(listing) :
                      names[i] = n /\ \A j \in 1..Len(listing) : names[j] = n => j <= i
    IN [n \in Range(names) |->
          [path |-> P(base, listing[last(n)].stem, listing[last(n)].ext),
           format |-> FILEEXTENS(SplitExt(listing[last(n)])),
           pandas_args |-> EmptyMap,
           schema |-> EmptyMap]]

\* --------------------------------------------------------------- flow_load
\* One iteration of flow_load's loop, on name f: the manifest afterwards, the
\* object loaded, the get-object requests made, the arguments handed to the
\* adapter and the exception raised ("none" when the iteration completes).
FlowIter(f, ds, store, cs, pa) ==
    IF f \notin DOMAIN ds
    THEN [err |-> NameErr(f), ds |-> ds, obj |-> NoObj, req |-> <<>>, kw |-> <<>>]
    ELSE IF "pandas_args" \notin DOMAIN ds[f]
    THEN [err |-> Err("KeyError"), ds |-> ds, obj |-> NoObj, req |-> <<>>, kw |-> <<>>]
    ELSE LET info == [ds[f] EXCEPT !.pandas_args = Update(@, pa)]
             ds2 == [ds EXCEPT ![f] = info]
         IN IF info.format \in TabularFormats
            THEN LET ld == LoadData(info, store)
                 IN IF ld.err /= NoErr
                    THEN [err |-> ld.err, ds |-> ds2, obj |-> NoObj, req |-> ld.req,
                          kw |-> <<info.pandas_args>>]
                    ELSE IF cs
                    THEN IF "schema" \notin DOMAIN info
                         THEN [err |-> Err("KeyError"), ds |-> ds2, obj |-> NoObj,
                               req |-> ld.req, kw |-> <<info.pandas_args>>]
                         ELSE LET c == CastSchema(ld.obj, info.schema)
                              IN [err |-> Err(c.err), ds |-> ds2, obj |-> c.out,
                                  req |-> ld.req, kw |-> <<info.pandas_args>>]
                    ELSE [err |-> NoErr, ds |-> ds2, obj |-> ld.obj, req |-> ld.req,
                          kw |-> <<info.pandas_args>>]
            ELSE IF info.format \in {"pickle", "json", "image"}
            THEN LET ld == LoadData(info, store)
                 IN [err |-> ld.err, ds |-> ds2, obj |-> ld.obj, req |-> ld.req,
                     kw |-> <<>>]
            ELSE [err |-> FormatErr(info), ds |-> ds2, obj |-> NoObj, req |-> <<>>,
                  kw |-> <<>>]

\* --------------------------------------------------------------- save_file
\* save_file(obj, file_name, cast_schema, **pa) as a whole: the manifest and the
\* bucket afterwards, the caller's object as the call leaves it, the writes made
\* and the exception raised.
SaveOutcome(obj, name, isStr, cs, pa, ds, store, closed) ==
    IF ~isStr
    THEN [err |-> Err("ParamError"), ds |-> ds, store |-> store, objAfter |-> obj,
          wrote |-> <<>>, kw |-> <<>>]
    ELSE IF name \notin DOMAIN ds
    THEN [err |-> Err("TypeError"), ds |-> ds, store |-> store, objAfter |-> obj,
          wrote |-> <<>>, kw |-> <<>>]
    ELSE IF "pandas_args" \notin DOMAIN ds[name]
    THEN [err |-> Err("KeyError"), ds |-> ds, store |-> store, objAfter |-> obj,
          wrote |-> <<>>, kw |-> <<>>]
    ELSE LET info == [ds[name] EXCEPT !.pandas_args = Update(@, pa)]
             ds2 == [ds EXCEPT ![name] = info]
         IN IF cs /\ "schema" \notin DOMAIN info
            THEN [err |-> Err("KeyError"), ds |-> ds2, store |-> store,
                  objAfter |-> obj, wrote |-> <<>>, kw |-> <<>>]
            ELSE LET c == IF cs THEN CastSchema(obj, info.schema)
                          ELSE [out |-> obj, inp |-> obj, err |-> "none"]
                 IN IF c.err /= "none"
                    THEN [err |-> Err(c.err), ds |-> ds2, store |-> store,
                          objAfter |-> c.inp, wrote |-> <<>>, kw |-> <<>>]
                    ELSE LET sd == SaveData(c.out, info, store, closed)
                         IN [err |-> sd.err, ds |-> ds2, store |-> sd.store,
                             objAfter |-> c.inp, wrote |-> sd.wrote,
                             kw |-> <<info.pandas_args>>]

LoadedOnlyLast(res, f, obj) == f :> obj

\* _datasets[f] = obj
Loaded(res, f, obj) == (f :> obj) @@ res

\* ------------------------------------------------------------------ state
VARIABLES
    datasets,     \* self.datasets: logical name -> manifest entry
    storage,      \* the bucket: key -> stored bytes
    file_name,    \* self.file_name
    cast_schema,  \* self.cast_schema
    pandas_args,  \* self.pandas_args
    th,           \* each caller's position in its call, and the call's locals
    last,         \* the call that ended most recently: its inputs and its outcome
    ncalls,       \* calls started so far
    cast          \* a _cast_schema call on its own: its inputs and its result

vars == <<datasets, storage, file_name, cast_schema, pandas_args, th, last, ncalls, cast>>

NonString == "<list>"
\* The (cast_schema, **pandas_args) a call is made with.
CallOpts == {<<FALSE, EmptyMap>>, <<FALSE, [sep |-> ";"]>>, <<TRUE, EmptyMap>>}
SaveObjs == {F1, J1}

Idle ==
    [pc |-> "idle", kind |-> "none", names |-> <<>>, cast |-> FALSE,
     args |-> EmptyMap, base |-> "", listing |-> <<>>, it |-> <<>>, idx |-> 0,
     res |-> EmptyMap, req |-> <<>>, kw |-> <<>>, usedCast |-> {}, usedArgs |-> {},
     ovl |-> FALSE]

NoCall ==
    [kind |-> "none", err |-> NoErr, names |-> <<>>, cast |-> FALSE,
     args |-> EmptyMap, base |-> "", listing |-> <<>>, obj |-> NoObj,
     objAfter |-> NoObj, res |-> EmptyMap, req |-> <<>>, wrote |-> <<>>,
     kw |-> <<>>, usedCast |-> {}, usedArgs |-> {}, ovl |-> FALSE]

NoCast == [done |-> FALSE, df |-> NoObj, schema |-> <<>>, r |-> NoObj]

Busy(t) == th[t].pc /= "idle"
OthersBusy(t) == \E u \in Threads \ {t} : Busy(u)

\* The callers' records when t starts a call: a call already running overlaps it.
Started(t, rec) ==
    [u \in Threads |->
        IF u = t THEN [rec EXCEPT !.ovl = OthersBusy(t)]
        ELSE IF Busy(u) THEN [th[u] EXCEPT !.ovl = TRUE] ELSE th[u]]

\* The record of t's flow call as it ends with err.
Ended(c, err) ==
    [NoCall EXCEPT !.kind = c.kind, !.err = err, !.names = c.names, !.cast = c.cast,
                   !.args = c.args, !.base = c.base, !.listing = c.listing,
                   !.res = c.res, !.req = c.req, !.kw = c.kw,
                   !.usedCast = c.usedCast, !.usedArgs = c.usedArgs, !.ovl = c.ovl]

\* Lists of at most n names, none repeated.
RECURSIVE Lists(_, _)
Lists(S, n) ==
    IF n = 0 THEN {<<>>}
    ELSE LET shorter == Lists(S, n - 1)
         IN shorter \cup {Append(l, x) : l \in {m \in shorter : Len(m) = n - 1},
                                          x \in S} 

NameLists == {l \in Lists(DOMAIN datasets \cup {Ghost}, MaxBatch) :
                 l /= <<>> /\ \A i, j \in DOMAIN l : l[i] = l[j] => i = j}

Init ==
    /\ datasets \in {Construct(raw) : raw \in RawManifests}
    /\ storage = Bucket0
    /\ file_name = <<>>
    /\ cast_schema = FALSE
    /\ pandas_args = EmptyMap
    /\ th = [t \in Threads |-> Idle]
    /\ last = NoCall
    /\ ncalls = 0
    /\ cast = NoCast

\* load_file(file_name, cast_schema, **pandas_args) up to its call of flow_load
LoadFileCall(t, names, cs, pa) ==
    /\ ~Busy(t)
    /\ ncalls < MaxCalls
    /\ ncalls' = ncalls + 1
    /\ file_name' = names
    /\ cast_schema' = cs
    /\ pandas_args' = pa
    /\ th' = Started(t, [Idle EXCEPT !.pc = "flow", !.kind = "load_file",
                                     !.names = names, !.cast = cs, !.args = pa])
    /\ UNCHANGED <<datasets, storage, last, cast>>

\* load_folder(base_uri) up to its call of flow_load, or to its ValueError
LoadFolderCall(t, base) ==
    LET listing == Listing(storage, base)
        rec == [Idle EXCEPT !.kind = "load_folder", !.base = base,
                            !.listing = listing]
    IN /\ ~Busy(t)
       /\ ncalls < MaxCalls
       /\ ncalls' = ncalls + 1
       /\ file_name' = FolderNames(listing)
       /\ datasets' = IF listing = <<>> THEN EmptyMap ELSE FolderDatasets(base, listing)
       /\ IF listing = <<>>
          THEN /\ th' = [Started(t, rec) EXCEPT ![t] = Idle]
               /\ last' = Ended([rec EXCEPT !.ovl = OthersBusy(t)], Err("EmptyListing"))
               /\ UNCHANGED <<cast_schema, pandas_args>>
          ELSE /\ th' = Started(t, [rec EXCEPT !.pc = "flow"])
               /\ cast_schema' = FALSE
               /\ pandas_args' = EmptyMap
               /\ UNCHANGED last
       /\ UNCHANGED <<storage, cast>>

\* flow_load: _datasets = {} and the loop takes self.file_name
FlowStart(t) ==
    /\ th[t].pc = "flow"
    /\ IF file_name = <<>>
       THEN /\ th' = [th EXCEPT ![t] = Idle]
            /\ last' = Ended(th[t], NoErr)
       ELSE /\ th' = [th EXCEPT ![t].pc = "iter", ![t].it = file_name, ![t].idx = 1]
            /\ UNCHANGED last
    /\ UNCHANGED <<datasets, storage, file_name, cast_schema, pandas_args, ncalls, cast>>

\* flow_load: one iteration of the loop; the last one returns _datasets
FlowStep(t) ==
    /\ th[t].pc = "iter"
    /\ LET c == th[t]
           f == c.it[c.idx]
           r == FlowIter(f, datasets, storage, cast_schema, pandas_args)
           merged == r.ds /= datasets
           c2 == [c EXCEPT !.req = @ \o r.req,
                           !.kw = @ \o [i \in DOMAIN r.kw |-> [name |-> f, args |-> r.kw[i]]],
                           !.usedCast = IF r.req /= <<>> /\ r.err = NoErr
                                           /\ datasets[f].format \in TabularFormats
                                        THEN @ \cup {cast_schema} ELSE @,
                           !.usedArgs = IF f \in DOMAIN datasets
                                           /\ "pandas_args" \in DOMAIN datasets[f]
                                        THEN @ \cup {pandas_args} ELSE @,
                           !.res = IF r.err = NoErr THEN Loaded(@, f, r.obj) ELSE @,
                           !.idx = @ + 1]
       IN /\ datasets' = r.ds
          /\ IF r.err /= NoErr
             THEN /\ th' = [th EXCEPT ![t] = Idle]
                  /\ last' = Ended(c2, r.err)
             ELSE IF c.idx = Len(c.it)
             THEN /\ th' = [th EXCEPT ![t] = Idle]
                  /\ last' = Ended(c2, NoErr)
             ELSE /\ th' = [th EXCEPT ![t] = c2]
                  /\ UNCHANGED last
    /\ UNCHANGED <<storage, file_name, cast_schema, pandas_args, ncalls, cast>>

\* save_file(obj, file_name, cast_schema, **pandas_args)
SaveFile(t, obj, name, cs, pa, closed) ==
    LET r == SaveOutcome(obj, name, name /= NonString, cs, pa, datasets, storage, closed)
    IN /\ ~Busy(t)
       /\ ncalls < MaxCalls
       /\ ncalls' = ncalls + 1
       /\ datasets' = r.ds
       /\ storage' = r.store
       /\ th' = [Started(t, Idle) EXCEPT ![t] = Idle]
       /\ last' = [NoCall EXCEPT !.kind = "save_file", !.err = r.err,
                                 !.names = <<name>>, !.cast = cs, !.args = pa,
                                 !.obj = obj, !.objAfter = r.objAfter,
                                 !.wrote = r.wrote,
                                 !.kw = [i \in DOMAIN r.kw |-> [name |-> name, args |-> r.kw[i]]],
                                 !.ovl = OthersBusy(t)]
       /\ UNCHANGED <<file_name, cast_schema, pandas_args, cast>>

\* What closing the file can leave, where save_data can raise with it open.
Closings(obj, name) ==
    IF name \in DOMAIN datasets /\ datasets[name].format = "json" /\ obj.kind /= "value"
    THEN BOOLEAN ELSE {FALSE}

Call(t) ==
    \/ \E names \in NameLists, o \in CallOpts : LoadFileCall(t, names, o[1], o[2])
    \/ \E base \in Bases : LoadFolderCall(t, base)
    \/ \E obj \in SaveObjs, name \in DOMAIN datasets \cup {Ghost}, o \in CallOpts :
          \E closed \in Closings(obj, name) : SaveFile(t, obj, name, o[1], o[2], closed)
    \/ \E obj \in SaveObjs : SaveFile(t, obj, NonString, FALSE, EmptyMap, FALSE)

Step(t) == FlowStart(t) \/ FlowStep(t)

\* One caller: every call runs to completion before the next starts.
Next == Call(1) \/ Step(1)

Spec == Init /\ [][Next]_vars

\* Two callers on one instance, their calls interleaving between the steps of
\* load_file, load_folder and flow_load.
ConcManifest == CHOOSE raw \in RawManifests : "sales" \in DOMAIN raw

InitConc ==
    /\ datasets = Construct(ConcManifest)
    /\ storage = Bucket0
    /\ file_name = <<>>
    /\ cast_schema = FALSE
    /\ pandas_args = EmptyMap
    /\ th = [t \in Threads |-> Idle]
    /\ last = NoCall
    /\ ncalls = 0
    /\ cast = NoCast

ConcCall(t) ==
    \/ \E names \in {l \in NameLists : Ghost \notin Range(l)}, o \in CallOpts :
          LoadFileCall(t, names, o[1], o[2])
    \/ LoadFolderCall(t, "f/")

NextConc == \E t \in Threads : ConcCall(t) \/ Step(t)

SpecConc == InitConc /\ [][NextConc]_vars

\* ------------------------------------------------- _cast_schema on its own
ColNames == {"id", "name", "extra"}
Cells == {Cell("str", "num"), Cell("str", "txt"), Cell("int64", "num")}
NoRepeat(l) == \A i, j \in DOMAIN l : l[i] = l[j] => i = j

Frames ==
    UNION {{[kind |-> "frame", cols |-> cs, data |-> d] : d \in [Range(cs) -> Cells]} :
              cs \in {l \in Lists(ColNames, Cardinality(ColNames)) : NoRepeat(l)}}

Schemas ==
    Lists({[col |-> c, dtype |-> t] : c \in ColNames, t \in {"int64", "str", Sentinel}},
          MaxSchema)

InitCast ==
    /\ datasets = EmptyMap
    /\ storage = Bucket0
    /\ file_name = <<>>
    /\ cast_schema = FALSE
    /\ pandas_args = EmptyMap
    /\ th = [t \in Threads |-> Idle]
    /\ last = NoCall
    /\ ncalls = 0
    /\ cast \in {[NoCast EXCEPT !.df = df, !.schema = sch] : df \in Frames, sch \in Schemas}

\* _cast_schema(df, schema)
CastCall ==
    /\ ~cast.done
    /\ cast' = [cast EXCEPT !.done = TRUE, !.r = CastSchema(cast.df, cast.schema)]
    /\ UNCHANGED <<datasets, storage, file_name, cast_schema, pandas_args, th, last, ncalls>>

SpecCast == InitCast /\ [][CastCall]_vars

\* ================================================================== claims
\* No call is in progress: last is the call that just ended, and the manifest is
\* as that call left it.
Quiet == \A t \in Threads : ~Busy(t)

Absent(l) == {i \in DOMAIN l : l[i] \notin DOMAIN datasets}
FirstAbsent(l) == CHOOSE i \in Absent(l) : \A j \in Absent(l) : i <= j

\* C1 as stated, for the calls that do raise the name-not-in-manifest error: a
\* load_file call with a name absent from the manifest, known names before it
\* or not, has performed no get-object when it fails.
C1_NoFetchAtAll ==
    (/\ Quiet /\ last.kind = "load_file" /\ Absent(last.names) /= {}
     /\ last.err.kind = "NameNotFound")
        => last.req = <<>>

\* C1 amended: a load_file call with a name absent from the manifest never
\* returns a result set; its get-objects are for names before the first absent
\* one, in order, and none for that name or a later one; it fails with the
\* name-not-in-manifest error, naming the first absent name, exactly when every
\* name before it was loaded, one get-object each.
C1_AbortsAtFirstAbsent ==
    (Quiet /\ last.kind = "load_file" /\ Absent(last.names) /= {})
        => LET k == FirstAbsent(last.names)
           IN /\ last.err /= NoErr
              /\ Len(last.req) <= k - 1
              /\ \A j \in 1..Len(last.req) : last.req[j] = datasets[last.names[j]].path
              /\ (last.err.kind = "NameNotFound")
                    <=> (DOMAIN last.res = {last.names[j] : j \in 1..(k - 1)})
              /\ last.err.kind = "NameNotFound"
                    => (last.err.name = last.names[k] /\ Len(last.req) = k - 1)

C1_Witness ==
    /\ Quiet /\ last.kind = "load_file" /\ Len(last.names) = 2
    /\ last.names[2] = Ghost
    /\ last.err.kind = "NameNotFound"
    /\ Len(last.req) = 1

\* C2: a successful save_file(obj, name) followed by load_file([name]) returns
\* obj under name, the load reading the key the save wrote.
C2_RoundTrip ==
    [][(/\ last.kind = "save_file" /\ last.err = NoErr /\ ~last.cast
        /\ last'.kind = "load_file" /\ last'.names = last.names
        /\ ~last'.cast /\ last'.args = EmptyMap)
       => (/\ last'.err = NoErr
           /\ DOMAIN last'.res = {last.names[1]}
           /\ last'.res[last.names[1]] = last.obj
           /\ last'.req = last.wrote)]_vars

\* book's key is not in the bucket until a save_file puts it there.
C2_Witness ==
    /\ last.kind = "load_file" /\ last.err = NoErr /\ last.names = <<"book">>
    /\ ~last.cast /\ last.args = EmptyMap
    /\ last.res["book"] = F1

\* C3: save_file with a string name that is not in the manifest fails with the
\* name-not-in-manifest error and writes nothing.
C3_SaveUnknownName ==
    (/\ Quiet /\ last.kind = "save_file" /\ last.names[1] /= NonString
     /\ last.names[1] \notin DOMAIN datasets)
        => (last.err.kind = "NameNotFound" /\ last.wrote = <<>>)

\* C4: a load of an entry with no format tag, or a save to an entry with no tag
\* or the image tag, fails with InvalidFormat naming the entry's path and tag,
\* and makes no storage request.
C4_UnsupportedFormat ==
    (/\ Quiet /\ last.kind \in {"load_file", "save_file"} /\ Len(last.names) = 1
     /\ last.names[1] \in DOMAIN datasets
     /\ datasets[last.names[1]].format
           \in (IF last.kind = "load_file" THEN {None} ELSE {None, "image"}))
        => (/\ last.err = FormatErr(datasets[last.names[1]])
            /\ last.req = <<>> /\ last.wrote = <<>>)

\* C5: however a load_folder call ends, the manifest holds exactly one entry
\* per listed object, the i-th (from 0) keyed "{format}_{i}" with the tag of its
\* extension, empty arguments and empty schema; the call fails with
\* EmptyListing exactly when nothing was listed, and a result set it returns
\* has exactly those keys.
C5_FolderRebuilds ==
    (Quiet /\ last.kind = "load_folder")
        => LET L == last.listing
               key(i) == FILEEXTENS(L[i].ext) \o "_" \o ToString(i - 1)
           IN /\ Cardinality(DOMAIN datasets) = Len(L)
              /\ DOMAIN datasets = {key(i) : i \in 1..Len(L)}
              /\ \A i \in 1..Len(L) :
                    /\ datasets[key(i)].format = FILEEXTENS(L[i].ext)
                    /\ datasets[key(i)].pandas_args = EmptyMap
                    /\ datasets[key(i)].schema = EmptyMap
              /\ (L = <<>>) <=> (last.err.kind = "EmptyListing")
              /\ last.err = NoErr => DOMAIN last.res = DOMAIN datasets

\* The bulk load failed on a listed object with no format tag, after the rebuild.
C5_Witness ==
    /\ Quiet /\ last.kind = "load_folder" /\ last.base = "g/"
    /\ last.err.kind = "InvalidFormat"
    /\ DOMAIN datasets = {"None_0", "image_1"}

\* C6: for an entry constructed from a path alone, with a recognized
\* extension, load_file and save_file reach the adapter rather than fail on
\* the missing field.
C6_OptionalFields ==
    (/\ Quiet /\ last.kind \in {"load_file", "save_file"} /\ Len(last.names) = 1
     /\ last.names[1] \in DOMAIN datasets
     /\ DOMAIN datasets[last.names[1]] = {"path", "format"}
     /\ datasets[last.names[1]].format /= None)
        => (/\ last.err.kind /= "KeyError"
            /\ last.kind = "load_file" => Len(last.req) = 1)

\* The type the schema leaves column c with: that of its last declaration that
\* is not the sentinel, or the column's own when there is none.
Declared(df, schema, c) ==
    LET ds == {i \in DOMAIN schema : schema[i].col = c /\ schema[i].dtype /= Sentinel}
    IN IF ds = {} THEN df.data[c].dtype
       ELSE schema[CHOOSE i \in ds : \A j \in ds : j <= i].dtype

\* C7: for a non-empty schema whose columns all exist, the object
\* _cast_schema returns has exactly the schema's columns in the schema's order,
\* each of its declared type (its own under the sentinel) with its values kept;
\* for an empty schema it returns the object it was given.
C7_CastShape ==
    (cast.done /\ \A i \in DOMAIN cast.schema : cast.schema[i].col \in DOMAIN cast.df.data)
        => /\ cast.r.err \in {"none", "TypeCoercionError"}
           /\ cast.schema = <<>> => (cast.r.err = "none" /\ cast.r.out = cast.df)
           /\ (cast.schema /= <<>> /\ cast.r.err = "none")
                 => /\ cast.r.out.cols = [i \in DOMAIN cast.schema |-> cast.schema[i].col]
                    /\ DOMAIN cast.r.out.data = {cast.schema[i].col : i \in DOMAIN cast.schema}
                    /\ \A c \in DOMAIN cast.r.out.data :
                          /\ cast.r.out.data[c].dtype = Declared(cast.df, cast.schema, c)
                          /\ cast.r.out.data[c].raw = cast.df.data[c].raw

\* A column is dropped, the kept ones are reordered and one is coerced.
C7_Witness ==
    /\ cast.done /\ cast.r.err = "none"
    /\ cast.df.cols = <<"id", "name", "extra">>
    /\ cast.df.data["id"].dtype = "str"
    /\ cast.schema = << [col |-> "name", dtype |-> Sentinel], [col |-> "id", dtype |-> "int64"] >>
    /\ cast.r.out.cols = <<"name", "id">>

\* C8: the object passed to save_file with cast_schema=true has the same
\* columns, types and values after the call as before it.
C8_CastLeavesInput ==
    (last.kind = "save_file" /\ last.cast) => last.objAfter = last.obj

\* Spec has one caller, caller 1; the definitions below read its position.
\* The kind of the call this step starts ("none" when it starts none).
StartedKind ==
    IF ncalls' = ncalls THEN "none"
    ELSE IF th'[1].pc /= "idle" THEN th'[1].kind ELSE last'.kind

\* The named entry is the one this step's merge reaches: the name flow_load's
\* loop is at, or the name save_file was passed.
Reached(n) ==
    \/ th[1].pc = "iter" /\ th[1].it[th[1].idx] = n
    \/ StartedKind = "save_file" /\ last'.names = <<n>>

\* The arguments of the call the step belongs to.
StepArgs == IF th[1].pc = "iter" THEN th[1].args ELSE last'.args

\* new is old overridden by args.
Overrides(old, args, new) ==
    /\ DOMAIN new = DOMAIN old \cup DOMAIN args
    /\ \A k \in DOMAIN args : new[k] = args[k]
    /\ \A k \in DOMAIN old \ DOMAIN args : new[k] = old[k]

\* The arguments this step handed to the adapter.
StepKw ==
    IF th[1].pc = "iter"
    THEN LET after == IF th'[1].pc = "iter" THEN th'[1].kw ELSE last'.kw
         IN {after[i] : i \in (Len(th[1].kw) + 1)..Len(after)}
    ELSE IF StartedKind = "save_file" THEN Range(last'.kw) ELSE {}

MergeStep(exempt) ==
    exempt \/
    /\ \A n \in DOMAIN datasets :
          /\ n \in DOMAIN datasets'
          /\ IF Reached(n) /\ "pandas_args" \in DOMAIN datasets[n]
             THEN /\ Overrides(datasets[n].pandas_args, StepArgs, datasets'[n].pandas_args)
                  /\ datasets'[n] = [datasets[n] EXCEPT !.pandas_args = datasets'[n].pandas_args]
             ELSE datasets'[n] = datasets[n]
    /\ \A e \in StepKw : e.args = datasets'[e.name].pandas_args

\* C9 as stated: the arguments merged into an entry stay stored through every
\* later call; a step changes an entry only by overriding the stored arguments
\* of the entry it reaches with the call's.
C9_MergedForGood == [][MergeStep(FALSE)]_vars

\* C9 amended: until a load_folder call rebuilds the manifest, a step changes
\* an entry only by overriding the stored arguments of the entry it reaches
\* with the call's (the call's win on every colliding key), every other entry
\* is unchanged, and the arguments handed to the adapter are the stored ones
\* after the merge.
C9_MergedUntilRebuilt == [][MergeStep(StartedKind = "load_folder")]_vars

\* book's stored sep "," was overridden by a call's sep ";".
C9_Witness ==
    /\ Quiet /\ "book" \in DOMAIN datasets
    /\ datasets["book"].pandas_args = [sep |-> ";"]
    /\ \E i \in DOMAIN last.kw : last.kw[i] = [name |-> "book", args |-> [sep |-> ";"]]

\* C10: a load_file call that no other call overlapped and that returns,
\* returns a result set keyed by exactly its own names, having applied its own
\* cast_schema flag and merged its own arguments.
C10_SerializedOwnInputs ==
    (last.kind = "load_file" /\ ~last.ovl /\ last.err = NoErr)
        => /\ DOMAIN last.res = Range(last.names)
           /\ last.usedCast \subseteq {last.cast}
           /\ last.usedArgs = {last.args}

\* Two interleaved calls: one returned a result set keyed by the other's names,
\* having applied the other's flag and merged the other's arguments.
C10_Witness ==
    /\ last.kind = "load_file" /\ last.ovl /\ last.err = NoErr
    /\ DOMAIN last.res \cap Range(last.names) = {}
    /\ DOMAIN last.res /= {}
    /\ last.cast \notin last.usedCast /\ last.usedCast /= {}
    /\ last.args \notin last.usedArgs

====
